---------------------------- MODULE Spec2Model ----------------------------
(***************************************************************************)
(* Model of scripts/export-feed.py: the blogwatcher listing parser, the    *)
(* junk / topic / emoji classifiers, the URL fixer and main(), the feed    *)
(* assembler that filters, deduplicates, caps and writes news.json.        *)
(*                                                                         *)
(* A Python str is a sequence of one-character strings, so that len,       *)
(* slicing, lower(), strip(), startswith(), replace() and the re module    *)
(* are computed character by character as Python computes them.  A dict    *)
(* is a function from its keys (strings) to values; {} is <<>>.            *)
(***************************************************************************)
EXTENDS Integers, Sequences, FiniteSets, TLC

VARIABLES
  blogwatcher,          \* what `blogwatcher articles --all` does when run:
                        \*   its exit status and the lines of its stdout
  news_json,            \* the contents of public/news.json
  writes,               \* how often news.json has been opened for writing
  console,              \* what main() has printed
  pc,                   \* where the run is
  lines, pos,           \* parse_blogwatcher_output: lines and loop position
  current,              \*   the record being accumulated
  parsed,               \*   its local list `articles`
  articles, idx,        \* main(): the parsed records and loop position
  processed,            \*   the feed items built so far
  seen_titles,          \*   the dedup keys recorded so far
  skipped_off_topic,
  skipped_not_relevant,
  call,                 \* a direct call of get_emoji: its arguments
  ret                   \*   and what it returned

vars == <<blogwatcher, news_json, writes, console, pc, lines, pos, current,
          parsed, articles, idx, processed, seen_titles, skipped_off_topic,
          skipped_not_relevant, call, ret>>

(***************************************************************************)
(* Characters and the str methods the script uses.                         *)
(***************************************************************************)
ToLower ==
  [c \in {"A","B","C","D","E","F","G","H","I","J","K","L","M",
          "N","O","P","Q","R","S","T","U","V","W","X","Y","Z"} |->
     CASE c = "A" -> "a" [] c = "B" -> "b" [] c = "C" -> "c" [] c = "D" -> "d"
       [] c = "E" -> "e" [] c = "F" -> "f" [] c = "G" -> "g" [] c = "H" -> "h"
       [] c = "I" -> "i" [] c = "J" -> "j" [] c = "K" -> "k" [] c = "L" -> "l"
       [] c = "M" -> "m" [] c = "N" -> "n" [] c = "O" -> "o" [] c = "P" -> "p"
       [] c = "Q" -> "q" [] c = "R" -> "r" [] c = "S" -> "s" [] c = "T" -> "t"
       [] c = "U" -> "u" [] c = "V" -> "v" [] c = "W" -> "w" [] c = "X" -> "x"
       [] c = "Y" -> "y" [] c = "Z" -> "z"]

UpperChars == DOMAIN ToLower
LowerChars == {ToLower[c] : c \in UpperChars}
DigitChars == {"0","1","2","3","4","5","6","7","8","9"}
\* str.strip() and the regex class \s (the ASCII ones a TLA+ string can hold)
SpaceChars == {" ", "\t", "\n", "\r", "\f"}
\* the regex class \w, which decides \b
WordChars  == UpperChars \cup LowerChars \cup DigitChars \cup {"_"}

LowerCh(c) == IF c \in UpperChars THEN ToLower[c] ELSE c

\* str.lower()
Lower(s) == [k \in 1..Len(s) |-> LowerCh(s[k])]

\* s[:n]
Prefix(s, n) == IF Len(s) <= n THEN s ELSE SubSeq(s, 1, n)

\* s[i:] with i counted from 1
From(s, i) == IF i > Len(s) THEN <<>> ELSE SubSeq(s, i, Len(s))

\* s.startswith(p)
StartsWith(s, p) == Len(p) <= Len(s) /\ \A k \in 1..Len(p) : s[k] = p[k]

\* s.endswith(p)
EndsWith(s, p) ==
  Len(p) <= Len(s) /\ \A k \in 1..Len(p) : s[Len(s) - Len(p) + k] = p[k]

\* whether p occurs in s at position i
OccursAt(s, p, i) ==
  i + Len(p) - 1 <= Len(s) /\ \A k \in 1..Len(p) : s[i + k - 1] = p[k]

\* p in s
Contains(s, p) == \E i \in 1..(Len(s) + 1) : OccursAt(s, p, i)

Min(S) == CHOOSE x \in S : \A y \in S : x <= y
Max(S) == CHOOSE x \in S : \A y \in S : x >= y

\* s.strip()
Strip(s) ==
  LET kept == {k \in 1..Len(s) : s[k] \notin SpaceChars}
  IN  IF kept = {} THEN <<>> ELSE SubSeq(s, Min(kept), Max(kept))

\* s.replace(p, ''): every non-overlapping occurrence of p, found left to
\* right, is removed
RECURSIVE ReplaceAll(_, _)
ReplaceAll(s, p) ==
  LET found == {i \in 1..Len(s) : OccursAt(s, p, i)}
  IN  IF found = {} THEN s
      ELSE SubSeq(s, 1, Min(found) - 1)
             \o ReplaceAll(From(s, Min(found) + Len(p)), p)

(***************************************************************************)
(* The re module, for the constructs the script's patterns use.  A pattern *)
(* is a tree.  Ends(r, s, I, ic) is the set of positions at which a match  *)
(* of r that starts at one of the positions I of s can end (position i is  *)
(* just before s[i]); ic is re.IGNORECASE.  A pattern matches somewhere    *)
(* exactly if some end exists, whatever order a backtracking matcher tries *)
(* the alternatives in.  + and * are applied to one-character patterns     *)
(* only, as in every pattern of the script.                                *)
(***************************************************************************)
Str(cs)     == <<"str", cs>>       \* literal text
In(cs)      == <<"in", cs>>        \* [...]
Digit       == <<"digit">>         \* \d
Space       == <<"space">>         \* \s
AnyCh       == <<"any">>           \* .
WordB       == <<"wordb">>         \* \b
Bol         == <<"bol">>           \* ^
Eol         == <<"eol">>           \* $
Cat(rs)     == <<"cat", rs>>       \* r1 r2 ...
Alt(rs)     == <<"alt", rs>>       \* r1 | r2 | ...
Opt(r)      == <<"opt", r>>        \* r?
Star(r)     == <<"star", r>>       \* r*
Plus(r)     == <<"plus", r>>       \* r+
NotAhead(r) == <<"notahead", r>>   \* (?!r)
Group(r)    == <<"group", r>>      \* (r) and (?:r)

SameCh(a, b, ic) == IF ic THEN LowerCh(a) = LowerCh(b) ELSE a = b

IsWordAt(s, i) == i >= 1 /\ i <= Len(s) /\ s[i] \in WordChars

RECURSIVE Ends(_, _, _, _)
RECURSIVE CatEnds(_, _, _, _, _)

\* r*, r a one-character pattern: any stretch of characters that all match r
StarEnds(r, s, I, ic) ==
  LET stop == {k \in 1..Len(s) : Ends(r, s, {k}, ic) = {}}
  IN  {e \in 1..(Len(s) + 1) :
         \E i \in I : i <= e /\ \A k \in stop : k < i \/ k >= e}

Ends(r, s, I, ic) ==
  CASE r[1] = "str" ->
         {i + Len(r[2]) :
            i \in {j \in I : /\ j + Len(r[2]) - 1 <= Len(s)
                             /\ \A k \in 1..Len(r[2]) :
                                  SameCh(s[j + k - 1], r[2][k], ic)}}
    [] r[1] = "in" ->
         {i + 1 : i \in {j \in I : /\ j <= Len(s)
                                   /\ \E k \in 1..Len(r[2]) :
                                        SameCh(s[j], r[2][k], ic)}}
    [] r[1] = "digit" ->
         {i + 1 : i \in {j \in I : j <= Len(s) /\ s[j] \in DigitChars}}
    [] r[1] = "space" ->
         {i + 1 : i \in {j \in I : j <= Len(s) /\ s[j] \in SpaceChars}}
    [] r[1] = "any" ->
         {i + 1 : i \in {j \in I : j <= Len(s) /\ s[j] # "\n"}}
    [] r[1] = "wordb" -> {i \in I : IsWordAt(s, i - 1) # IsWordAt(s, i)}
    [] r[1] = "bol" -> {i \in I : i = 1}
    [] r[1] = "eol" ->
         {i \in I : i = Len(s) + 1 \/ (i = Len(s) /\ s[i] = "\n")}
    [] r[1] = "cat" -> CatEnds(r[2], 1, s, I, ic)
    [] r[1] = "alt" -> UNION {Ends(r[2][k], s, I, ic) : k \in 1..Len(r[2])}
    [] r[1] = "opt" -> Ends(r[2], s, I, ic) \cup I
    [] r[1] = "star" -> StarEnds(r[2], s, I, ic)
    [] r[1] = "plus" -> StarEnds(r[2], s, Ends(r[2], s, I, ic), ic)
    [] r[1] = "notahead" -> {i \in I : Ends(r[2], s, {i}, ic) = {}}
    [] r[1] = "group" -> Ends(r[2], s, I, ic)

\* the parts rs[n], rs[n+1], ... one after the other
CatEnds(rs, n, s, I, ic) ==
  IF n > Len(rs) \/ I = {} THEN I
  ELSE CatEnds(rs, n + 1, s, Ends(rs[n], s, I, ic), ic)

\* re.match(r, s) is not None
ReMatch(r, s, ic) == Ends(r, s, {1}, ic) # {}

\* re.search(r, s) is not None
ReSearch(r, s, ic) == Ends(r, s, 1..(Len(s) + 1), ic) # {}

(***************************************************************************)
(* The pattern tables of the script, pattern by pattern in source order.   *)
(* An emoji is written by its Unicode short name.                          *)
(***************************************************************************)

EMOJI_MAP ==
  <<
    <<Alt(<<Str(<<"g","i","f","t">>), Str(<<"d","o","n","a","t">>),
        Str(<<"f","u","n","d">>), Str(<<"m","i","l","l","i","o","n">>),
        Cat(<<Str(<<"$">>), Plus(Digit)>>), Str(<<"e","n","d","o","w">>),
        Str(<<"p","h","i","l","a","n","t","h","r","o","p">>)>>),
      "money_bag">>,
    <<Alt(<<Str(<<"f","e","l","l","o","w","s","h","i","p">>),
        Str(<<"s","c","h","o","l","a","r">>),
        Str(<<"s","t","u","d","e","n","t">>),
        Str(<<"g","r","a","d","u","a","t">>),
        Str(<<"d","e","g","r","e","e">>), Str(<<"c","l","a","s","s">>)>>),
      "graduation_cap">>,
    <<Alt(<<Str(<<"r","e","s","e","a","r","c","h">>),
        Str(<<"s","t","u","d","y">>),
        Str(<<"d","i","s","c","o","v","e","r">>),
        Str(<<"s","c","i","e","n","t","i","s","t">>),
        Cat(<<Str(<<"l","a","b">>), WordB>>),
        Str(<<"i","n","v","e","s","t","i","g">>)>>),
      "microscope">>,
    <<Alt(<<Str(<<"h","o","s","p","i","t","a","l">>),
        Str(<<"c","l","i","n","i","c">>),
        Str(<<"f","a","c","i","l","i","t","y">>),
        Str(<<"c","e","n","t","e","r">>),
        Str(<<"t","r","e","a","t","m","e","n","t">>),
        Str(<<"s","u","r","g","e","r","y">>)>>),
      "hospital">>,
    <<Alt(<<Str(<<"d","o","g">>), Str(<<"c","a","n","i","n","e">>),
        Str(<<"p","u","p","p","y">>), Cat(<<Str(<<"k">>), Opt(Str(<<"-">>)),
        Str(<<"9">>)>>)>>),
      "dog">>,
    <<Alt(<<Str(<<"c","a","t">>), Str(<<"f","e","l","i","n","e">>),
        Str(<<"k","i","t","t","e","n">>)>>),
      "cat_face">>,
    <<Alt(<<Str(<<"h","o","r","s","e">>), Str(<<"e","q","u","i","n","e">>),
        Str(<<"e","q","u","e","s","t","r","i","a","n">>)>>),
      "horse_face">>,
    <<Alt(<<Str(<<"c","o","w">>), Str(<<"b","o","v","i","n","e">>),
        Str(<<"c","a","t","t","l","e">>),
        Str(<<"l","i","v","e","s","t","o","c","k">>),
        Str(<<"d","a","i","r","y">>)>>),
      "cow">>,
    <<Alt(<<Str(<<"p","i","g">>), Str(<<"s","w","i","n","e">>),
        Str(<<"p","o","r","c","i","n","e">>)>>),
      "pig_face">>,
    <<Alt(<<Str(<<"b","i","r","d">>), Str(<<"a","v","i","a","n">>),
        Str(<<"p","o","u","l","t","r","y">>),
        Str(<<"c","h","i","c","k","e","n">>)>>),
      "bird">>,
    <<Alt(<<Str(<<"z","o","o">>), Str(<<"w","i","l","d","l","i","f","e">>),
        Str(<<"e","x","o","t","i","c">>),
        Str(<<"c","o","n","s","e","r","v","a","t","i","o","n">>)>>),
      "lion">>,
    <<Alt(<<Str(<<"c","a","n","c","e","r">>), Str(<<"t","u","m","o","r">>),
        Str(<<"o","n","c","o","l","o","g">>)>>),
      "reminder_ribbon">>,
    <<Alt(<<Str(<<"v","a","c","c","i","n","e">>),
        Str(<<"i","m","m","u","n">>), Str(<<"v","i","r","u","s">>),
        Str(<<"d","i","s","e","a","s","e">>),
        Str(<<"o","u","t","b","r","e","a","k">>),
        Str(<<"p","a","n","d","e","m","i","c">>)>>),
      "syringe">>,
    <<Alt(<<Str(<<"a","w","a","r","d">>), Str(<<"h","o","n","o","r">>),
        Str(<<"r","e","c","o","g","n","i">>),
        Str(<<"w","i","n","n","e","r">>),
        Str(<<"a","c","h","i","e","v","e","m","e","n","t">>)>>),
      "trophy">>,
    <<Alt(<<Str(<<"c","o","n","f","e","r","e","n","c","e">>),
        Str(<<"s","y","m","p","o","s","i","u","m">>),
        Str(<<"f","o","r","u","m">>), Str(<<"e","v","e","n","t">>),
        Str(<<"w","o","r","k","s","h","o","p">>)>>),
      "calendar">>,
    <<Alt(<<Str(<<"o","n","e"," ","h","e","a","l","t","h">>),
        Str(<<"z","o","o","n","o","t","i","c">>),
        Str(<<"p","u","b","l","i","c"," ","h","e","a","l","t","h">>)>>),
      "globe">>,
    <<Alt(<<Str(<<"n","u","t","r","i","t","i","o","n">>),
        Str(<<"d","i","e","t">>), Str(<<"f","o","o","d">>),
        Str(<<"f","e","e","d">>)>>),
      "green_salad">>,
    <<Alt(<<Str(<<"e","m","e","r","g","e","n","c","y">>),
        Str(<<"r","e","s","c","u","e">>),
        Str(<<"d","i","s","a","s","t","e","r">>)>>),
      "police_light">>,
    <<Alt(<<Str(<<"t","e","c","h","n","o","l","o","g","y">>),
        Str(<<"a","i">>), Str(<<"a","r","t","i","f","i","c","i","a","l">>),
        Str(<<"d","i","g","i","t","a","l">>), Str(<<"r","o","b","o","t">>)>>),
      "robot">>,
    <<Alt(<<Str(<<"p","a","r","t","n","e","r","s","h","i","p">>),
        Str(<<"c","o","l","l","a","b","o","r","a","t">>),
        Str(<<"a","g","r","e","e","m","e","n","t">>)>>),
      "handshake">>
  >>

DEFAULT_EMOJI == "newspaper"

JUNK_PATTERNS ==
  <<
    Cat(<<Bol, Str(<<"R","e","a","d">>), Opt(Group(Cat(<<Plus(Space),
        Str(<<"A","l","l">>)>>))), Opt(Group(Cat(<<Plus(Space),
        Str(<<"N","e","w","s">>)>>))), Eol>>),
    Cat(<<Bol, Str(<<"E","M","A","I","L">>), Space>>),
    Cat(<<Bol, Str(<<"m","a","i","l","t","o",":">>)>>),
    Cat(<<Bol, Plus(Digit), Eol>>),
    Cat(<<Bol, Str(<<"P","a","g","e"," ">>), Plus(Digit)>>),
    Alt(<<Cat(<<Bol, Str(<<"N","e","x","t">>), Eol>>), Cat(<<Bol,
        Str(<<"P","r","e","v","i","o","u","s">>), Eol>>)>>),
    Cat(<<Bol, Str(<<"R","e","a","d"," ","m","o","r","e">>), Eol>>),
    Cat(<<Bol, Str(<<"S","e","e"," ","a","l","l">>), Eol>>),
    Cat(<<Bol,
        Str(<<"S","c","h","o","o","l"," ","o","f"," ","V","e","t","e","r","i","n","a","r","y"," ","M","e","d","i","c","i","n","e">>), Eol>>),
    Cat(<<Bol,
        Str(<<"V","e","t","e","r","i","n","a","r","y"," ","M","e","d","i","c","i","n","e">>), Eol>>),
    Cat(<<Bol,
        Str(<<"C","o","l","l","e","g","e"," ","o","f"," ","V","e","t","e","r","i","n","a","r","y"," ","M","e","d","i","c","i","n","e">>), Eol>>),
    Cat(<<Bol, Str(<<"N","e","w","s">>), Eol>>),
    Cat(<<Bol, Str(<<"E","v","e","n","t","s">>), Eol>>),
    Cat(<<Bol, Str(<<"H","o","m","e">>), Eol>>),
    Cat(<<Bol, Str(<<"C","o","n","t","a","c","t">>)>>),
    Cat(<<Bol, Str(<<"A","b","o","u","t">>)>>)
  >>

VET_HEALTH_KEYWORDS ==
  <<
    Cat(<<WordB, Str(<<"v","e","t","e","r","i","n">>)>>),
    Cat(<<WordB, Str(<<"a","n","i","m","a","l">>)>>),
    Cat(<<WordB, Str(<<"p","e","t">>), WordB>>),
    Cat(<<WordB, Str(<<"d","o","g">>), WordB>>),
    Cat(<<WordB, Str(<<"c","a","t">>), WordB>>),
    Cat(<<WordB, Str(<<"h","o","r","s","e">>)>>),
    Cat(<<WordB, Str(<<"e","q","u","i","n","e">>)>>),
    Cat(<<WordB, Str(<<"b","o","v","i","n","e">>)>>),
    Cat(<<WordB, Str(<<"c","a","t","t","l","e">>)>>),
    Cat(<<WordB, Str(<<"l","i","v","e","s","t","o","c","k">>)>>),
    Cat(<<WordB, Str(<<"p","i","g">>), WordB>>),
    Cat(<<WordB, Str(<<"s","w","i","n","e">>)>>),
    Cat(<<WordB, Str(<<"p","o","u","l","t","r","y">>)>>),
    Cat(<<WordB, Str(<<"b","i","r","d">>)>>),
    Cat(<<WordB, Str(<<"w","i","l","d","l","i","f","e">>)>>),
    Cat(<<WordB, Str(<<"z","o","o">>), WordB>>),
    Cat(<<WordB, Str(<<"e","x","o","t","i","c">>)>>),
    Cat(<<WordB, Str(<<"c","a","n","i","n","e">>)>>),
    Cat(<<WordB, Str(<<"f","e","l","i","n","e">>)>>),
    Cat(<<WordB, Str(<<"s","p","e","c","i","e","s">>)>>),
    Cat(<<WordB, Str(<<"c","l","i","n","i","c">>)>>),
    Cat(<<WordB, Str(<<"h","o","s","p","i","t","a","l">>)>>),
    Cat(<<WordB, Str(<<"s","u","r","g","e","r","y">>)>>),
    Cat(<<WordB, Str(<<"d","i","a","g","n","o","s">>)>>),
    Cat(<<WordB, Str(<<"t","r","e","a","t","m","e","n","t">>)>>),
    Cat(<<WordB, Str(<<"t","h","e","r","a","p">>)>>),
    Cat(<<WordB, Str(<<"d","i","s","e","a","s","e">>)>>),
    Cat(<<WordB, Str(<<"v","i","r","u","s">>)>>),
    Cat(<<WordB, Str(<<"b","a","c","t","e","r","i">>)>>),
    Cat(<<WordB, Str(<<"i","n","f","e","c","t">>)>>),
    Cat(<<WordB, Str(<<"v","a","c","c","i","n","e">>)>>),
    Cat(<<WordB, Str(<<"i","m","m","u","n">>)>>),
    Cat(<<WordB, Str(<<"p","a","t","h","o","l","o","g">>)>>),
    Cat(<<WordB, Str(<<"o","n","c","o","l","o","g">>)>>),
    Cat(<<WordB, Str(<<"c","a","n","c","e","r">>)>>),
    Cat(<<WordB, Str(<<"t","u","m","o","r">>)>>),
    Cat(<<WordB, Str(<<"r","e","s","e","a","r","c","h">>),
        NotAhead(Cat(<<Star(AnyCh),
        Str(<<"m","a","g","a","z","i","n","e">>)>>))>>),
    Cat(<<WordB, Str(<<"s","t","u","d","y">>), WordB>>),
    Cat(<<WordB, Str(<<"s","c","i","e","n","t","i","s","t">>)>>),
    Cat(<<WordB, Str(<<"l","a","b">>), WordB>>),
    Cat(<<WordB, Str(<<"o","n","e"," ","h","e","a","l","t","h">>)>>),
    Cat(<<WordB, Str(<<"z","o","o","n","o","t","i","c">>)>>),
    Cat(<<WordB,
        Str(<<"p","u","b","l","i","c"," ","h","e","a","l","t","h">>)>>),
    Cat(<<WordB, Str(<<"e","p","i","d","e","m","i","o","l","o","g">>)>>),
    Cat(<<WordB, Str(<<"n","u","t","r","i","t","i","o","n">>)>>),
    Cat(<<WordB, Str(<<"d","i","e","t">>), WordB>>),
    Cat(<<WordB, Str(<<"p","h","a","r","m","a">>)>>),
    Cat(<<WordB, Str(<<"d","r","u","g">>), WordB>>),
    Cat(<<WordB, Str(<<"c","l","i","n","i","c","a","l">>)>>),
    Cat(<<WordB, Str(<<"a","n","a","t","o","m","y">>)>>),
    Cat(<<WordB, Str(<<"p","h","y","s","i","o","l","o","g","y">>)>>),
    Cat(<<WordB, Str(<<"g","e","n","e","t","i","c","s">>)>>),
    Cat(<<WordB, Str(<<"m","o","l","e","c","u","l","a","r">>)>>),
    Cat(<<WordB, Str(<<"c","e","l","l">>), WordB>>),
    Cat(<<WordB, Str(<<"d","v","m">>), WordB>>),
    Cat(<<WordB, Str(<<"v","e","t">>), WordB>>),
    Cat(<<WordB, Str(<<"v","e","t","e","r","i","n","a","r","y">>)>>),
    Cat(<<WordB, Str(<<"r","e","s","i","d","e","n","c","y">>), WordB>>),
    Cat(<<WordB, Str(<<"i","n","t","e","r","n">>), WordB>>),
    Cat(<<WordB, Str(<<"s","h","e","l","t","e","r">>)>>),
    Cat(<<WordB, Str(<<"r","e","s","c","u","e">>), WordB>>),
    Cat(<<WordB, Str(<<"w","e","l","f","a","r","e">>)>>),
    Cat(<<WordB, Str(<<"h","u","m","a","n","e">>)>>),
    Cat(<<WordB, Str(<<"b","r","e","e","d","i","n","g">>)>>),
    Cat(<<WordB, Str(<<"r","e","p","r","o","d","u","c","t","i","o","n">>)>>),
    Cat(<<WordB, Str(<<"f","e","r","t","i","l","i","t","y">>)>>),
    Cat(<<WordB,
        Str(<<"t","h","e","r","i","o","g","e","n","o","l","o","g","y">>)>>),
    Cat(<<WordB, Str(<<"c","a","r","d","i","o">>)>>),
    Cat(<<WordB, Str(<<"n","e","u","r","o">>)>>),
    Cat(<<WordB, Str(<<"o","r","t","h","o">>)>>),
    Cat(<<WordB, Str(<<"d","e","r","m","a">>)>>),
    Cat(<<WordB, Str(<<"o","p","h","t","h","a","l","m">>)>>),
    Cat(<<WordB, Str(<<"d","e","n","t","a","l">>)>>),
    Cat(<<WordB, Str(<<"e","m","e","r","g","e","n","c","y">>)>>),
    Cat(<<WordB,
        Str(<<"c","r","i","t","i","c","a","l"," ","c","a","r","e">>)>>),
    Cat(<<WordB, Str(<<"a","n","e","s","t","h","e","s">>)>>),
    Cat(<<WordB, Str(<<"r","a","d","i","o","l","o","g","y">>)>>),
    Cat(<<WordB, Str(<<"i","m","a","g","i","n","g">>)>>),
    Cat(<<WordB, Str(<<"n","e","c","r","o","p","s","y">>)>>),
    Cat(<<WordB, Str(<<"a","u","t","o","p","s","y">>)>>),
    Cat(<<WordB, Str(<<"b","i","o","p","s","y">>)>>),
    Cat(<<WordB, Str(<<"h","i","s","t","o","l","o","g","y">>)>>),
    Cat(<<WordB, Str(<<"f","e","l","l","o","w","s","h","i","p">>)>>),
    Cat(<<WordB, Str(<<"s","c","h","o","l","a","r","s","h","i","p">>)>>),
    Cat(<<WordB, Str(<<"a","c","c","r","e","d","i","t">>)>>),
    Cat(<<WordB, Str(<<"a","v","m","a">>), WordB>>),
    Cat(<<WordB, Str(<<"a","a","h","a">>), WordB>>)
  >>

EXCLUDE_KEYWORDS ==
  <<
    Str(<<"f","o","o","t","b","a","l","l">>),
    Str(<<"b","a","s","k","e","t","b","a","l","l">>),
    Str(<<"b","a","s","e","b","a","l","l">>),
    Str(<<"s","o","f","t","b","a","l","l">>),
    Str(<<"s","o","c","c","e","r">>),
    Str(<<"h","o","c","k","e","y">>),
    Str(<<"l","a","c","r","o","s","s","e">>),
    Str(<<"v","o","l","l","e","y","b","a","l","l">>),
    Str(<<"t","e","n","n","i","s">>),
    Str(<<"g","o","l","f">>),
    Str(<<"t","r","a","c","k"," ","a","n","d"," ","f","i","e","l","d">>),
    Str(<<"a","t","h","l","e","t","e">>),
    Str(<<"c","h","a","m","p","i","o","n","s","h","i","p">>),
    Str(<<"t","o","u","r","n","a","m","e","n","t">>),
    Str(<<"p","l","a","y","o","f","f">>),
    Cat(<<Str(<<"c","o","a","c","h">>), WordB>>),
    Cat(<<Str(<<"s","h","a","r","k">>), Opt(In(<<"s">>)), WordB,
        NotAhead(Cat(<<Star(AnyCh),
        Str(<<"a","q","u","a","r","i","u","m">>)>>))>>),
    Cat(<<Str(<<"p","a","n","t","h","e","r">>), Opt(In(<<"s">>)), WordB>>),
    Cat(<<Str(<<"t","i","g","e","r">>), Opt(In(<<"s">>)), WordB,
        NotAhead(Cat(<<Star(AnyCh), Str(<<"z","o","o">>)>>))>>),
    Cat(<<Str(<<"b","e","a","r">>), Opt(In(<<"s">>)), WordB,
        NotAhead(Cat(<<Star(AnyCh),
        Str(<<"w","i","l","d","l","i","f","e">>)>>))>>),
    Str(<<"n","c","a","a">>),
    Cat(<<Str(<<"n","e","c">>), WordB>>),
    Cat(<<Str(<<"c","o","n","f","e","r","e","n","c","e">>), WordB,
        NotAhead(Cat(<<Star(AnyCh),
        Str(<<"v","e","t","e","r","i","n","a","r","y">>)>>))>>),
    Str(<<"s","p","i","r","i","t"," ","s","q","u","a","d">>),
    Str(<<"c","h","e","e","r","l","e","a","d","i","n","g">>),
    Str(<<"d","a","n","c","e"," ","t","e","a","m">>),
    Str(<<"e","n","t","r","e","p","r","e","n","e","u","r">>),
    Str(<<"b","u","s","i","n","e","s","s"," ","s","c","h","o","o","l">>),
    Cat(<<Str(<<"m","b","a">>), WordB>>),
    Str(<<"l","a","w"," ","s","c","h","o","o","l">>),
    Cat(<<Str(<<"e","n","g","i","n","e","e","r","i","n","g">>),
        NotAhead(Cat(<<Star(AnyCh),
        Str(<<"b","i","o","m","e","d","i","c","a","l">>)>>))>>),
    Str(<<"c","o","m","p","u","t","e","r"," ","s","c","i","e","n","c","e">>),
    Cat(<<Str(<<"m","u","s","i","c">>), WordB>>),
    Cat(<<Str(<<"a","r","t">>), WordB, NotAhead(Cat(<<Star(AnyCh),
        Str(<<"a","n","i","m","a","l","s">>)>>))>>),
    Str(<<"t","h","e","a","t","e","r">>),
    Cat(<<Str(<<"f","i","l","m">>), WordB>>),
    Str(<<"p","o","l","i","t","i","c","a","l">>),
    Str(<<"e","l","e","c","t","i","o","n">>),
    Cat(<<Str(<<"p","r","e","s","i","d","e","n","t">>),
        NotAhead(Cat(<<Star(AnyCh),
        Str(<<"u","n","i","v","e","r","s","i","t","y">>)>>))>>),
    Str(<<"r","e","a","l"," ","e","s","t","a","t","e">>),
    Str(<<"c","o","n","s","t","r","u","c","t","i","o","n">>),
    Cat(<<Str(<<"a","r","c","h","i","t","e","c","t","u","r","e">>),
        NotAhead(Cat(<<Star(AnyCh),
        Str(<<"h","o","s","p","i","t","a","l">>)>>))>>)
  >>


\* SCHOOL_URLS.get(source, '')
SCHOOL_URLS(source) ==
  IF source = <<"W","e","s","t","e","r","n"," ",
                "U","n","i","v","e","r","s","i","t","y">>
  THEN <<"h","t","t","p","s",":","/","/","w","w","w",".",
         "w","e","s","t","e","r","n","u",".","e","d","u">>
  ELSE <<>>

(***************************************************************************)
(* The classifiers.                                                        *)
(***************************************************************************)
RECURSIVE FirstEmoji(_, _)
FirstEmoji(text, n) ==
  IF n > Len(EMOJI_MAP) THEN DEFAULT_EMOJI
  ELSE IF ReSearch(EMOJI_MAP[n][1], text, TRUE) THEN EMOJI_MAP[n][2]
  ELSE FirstEmoji(text, n + 1)
\* a get_emoji in which the last matching pattern of the table wins
RECURSIVE LastEmoji(_, _)
LastEmoji(text, n) ==
  IF n < 1 THEN DEFAULT_EMOJI
  ELSE IF ReSearch(EMOJI_MAP[n][1], text, TRUE) THEN EMOJI_MAP[n][2]
  ELSE LastEmoji(text, n - 1)

get_emoji_LastMatch(title, summary) ==
  LastEmoji(Lower(title \o <<" ">> \o summary), Len(EMOJI_MAP))

get_emoji(title, summary) == FirstEmoji(Lower(title \o <<" ">> \o summary), 1)

is_vet_health_related(title, source) ==
  LET title_lower == Lower(title)
  IN  \E n \in 1..Len(VET_HEALTH_KEYWORDS) :
        ReSearch(VET_HEALTH_KEYWORDS[n], title_lower, TRUE)
\* an is_off_topic that does not ask for vet/health keywords
is_off_topic_NoKeywordCheck(title) ==
  LET text == Lower(title)
  IN  \E n \in 1..Len(EXCLUDE_KEYWORDS) :
        ReSearch(EXCLUDE_KEYWORDS[n], text, TRUE)

is_off_topic(title) ==
  LET text == Lower(title)
  IN  \E n \in 1..Len(EXCLUDE_KEYWORDS) :
        /\ ReSearch(EXCLUDE_KEYWORDS[n], text, TRUE)
        /\ ~is_vet_health_related(title, <<>>)

is_junk(title, url) ==
  \/ Len(title) < 10
  \/ \E n \in 1..Len(JUNK_PATTERNS) : ReMatch(JUNK_PATTERNS[n], title, TRUE)
  \/ StartsWith(url, <<"m","a","i","l","t","o",":">>)
  \/ Contains(url, <<"/","p","a","g","e","/">>) /\ EndsWith(url, <<"/">>)
  \/ Contains(url, <<"#","f","o","o","t","e","r">>)
  \/ Contains(url, <<"#","h","e","a","d","e","r">>)
  \/ Contains(url, <<"#","n","a","v">>)
  \/ /\ EndsWith(url, <<"/","i","n","d","e","x",".","h","t","m","l">>)
     /\ Len(title) < 20

fix_url(url, source) ==
  IF StartsWith(url, <<"h","t","t","p">>) THEN url
  ELSE IF StartsWith(url, <<"/">>) /\ SCHOOL_URLS(source) # <<>>
       THEN SCHOOL_URLS(source) \o url
  ELSE url

(***************************************************************************)
(* Python dicts: a function from the keys that are set to their values.    *)
(***************************************************************************)
EmptyDict == [k \in {} |-> <<>>]

\* d[key] = value
Put(d, key, value) ==
  [k \in DOMAIN d \cup {key} |-> IF k = key THEN value ELSE d[k]]

\* d.get(key, default)
Get(d, key, default) == IF key \in DOMAIN d THEN d[key] ELSE default

(***************************************************************************)
(* parse_blogwatcher_output: the two patterns it matches a line against,   *)
(* and what one pass of its loop does to `current` and `articles`.         *)
(***************************************************************************)
\* r'\[\d+\]'
MARKER_RE == Cat(<<Str(<<"[">>), Plus(Digit), Str(<<"]">>)>>)
\* a title pattern with an optional tag: r'\[\d+\]\s+(?:\[(?:read|unread)\]\s+)?(.+)'
TITLE_RE_OptionalTag ==
  Cat(<<Str(<<"[">>), Plus(Digit), Str(<<"]">>), Plus(Space),
        Opt(Cat(<<Str(<<"[">>), Alt(<<Str(<<"r","e","a","d">>), Str(<<"u","n","r","e","a","d">>)>>),
                  Str(<<"]">>), Plus(Space)>>)),
        Group(Plus(AnyCh))>>)

\* r'\[\d+\]\s+\[(?:read|unread)\]\s+(.+)'
TITLE_RE ==
  Cat(<<Str(<<"[">>), Plus(Digit), Str(<<"]">>), Plus(Space), Str(<<"[">>),
        Alt(<<Str(<<"r","e","a","d">>), Str(<<"u","n","r","e","a","d">>)>>), Str(<<"]">>), Plus(Space),
        Group(Plus(AnyCh))>>)

\* match.group(1) for a pattern r = Cat(<<..., Group(g)>>) that matches s
\* from its start: the quantifiers are greedy, so the part before the group
\* ends as late as a match allows and the group runs as far as it can.
Group1(r, s) ==
  LET before == SubSeq(r[2], 1, Len(r[2]) - 1)
      g      == r[2][Len(r[2])]
      starts == {i \in CatEnds(before, 1, s, {1}, FALSE) :
                   Ends(g, s, {i}, FALSE) # {}}
      from   == Max(starts)
  IN  SubSeq(s, from, Max(Ends(g, s, {from}, FALSE)) - 1)

\* output.strip().split('\n'), on a text given as its lines: the blank
\* lines before the first and after the last non-blank line go; of an
\* all-blank text one empty line is left.
StripSplit(text) ==
  LET kept == {k \in 1..Len(text) : Strip(text[k]) # <<>>}
  IN  IF kept = {} THEN << <<>> >> ELSE SubSeq(text, Min(kept), Max(kept))
\* a flush that does not ask for a title
Flush_NoTitleCheck(cur, arts) ==
  IF DOMAIN cur # {} THEN Append(arts, cur) ELSE arts

\* `if current and 'title' in current: articles.append(current)`
Flush(cur, arts) ==
  IF DOMAIN cur # {} /\ "title" \in DOMAIN cur THEN Append(arts, cur)
  ELSE arts

\* the value an attribute line gives its field
AttrValue(line, label) == Strip(ReplaceAll(line, label))

\* `current` after the loop body has run on one line
CurrentAfter(cur, raw) ==
  LET line == Strip(raw)
  IN  IF ReMatch(MARKER_RE, line, FALSE) THEN
        IF ReMatch(TITLE_RE, line, FALSE)
        THEN Put(EmptyDict, "title", Strip(Group1(TITLE_RE, line)))
        ELSE EmptyDict
      ELSE IF StartsWith(line, <<"B","l","o","g",":">>)
        THEN Put(cur, "source", AttrValue(line, <<"B","l","o","g",":">>))
      ELSE IF StartsWith(line, <<"U","R","L",":">>)
        THEN Put(cur, "url", AttrValue(line, <<"U","R","L",":">>))
      ELSE IF StartsWith(line, <<"P","u","b","l","i","s","h","e","d",":">>)
        THEN Put(cur, "date", AttrValue(line, <<"P","u","b","l","i","s","h","e","d",":">>))
      ELSE cur

\* `articles` after the loop body has run on one line
ArticlesAfter(cur, arts, raw) ==
  IF ReMatch(MARKER_RE, Strip(raw), FALSE) THEN Flush(cur, arts) ELSE arts

\* parse_blogwatcher_output(output), the output given as its lines:
\* the loop over the lines from line n on, then the last flush
RECURSIVE ParseFrom(_, _, _, _)
ParseFrom(ls, n, cur, arts) ==
  IF n > Len(ls) THEN Flush(cur, arts)
  ELSE ParseFrom(ls, n + 1, CurrentAfter(cur, ls[n]),
                 ArticlesAfter(cur, arts, ls[n]))

parse_blogwatcher_output(output) ==
  ParseFrom(StripSplit(output), 1, EmptyDict, <<>>)

(***************************************************************************)
(* main(): the numbers it uses and the feed item it builds from a record.  *)
(***************************************************************************)
KEY_LEN   == 50          \* title.lower()[:50]
TITLE_MAX == 100         \* title[:100]
MAX_ITEMS == 100         \* processed[:100]

UNKNOWN == <<"U","n","k","n","o","w","n">>   \* article.get('source', 'Unknown')

TitleOf(a)  == Get(a, "title", <<>>)
UrlOf(a)    == Get(a, "url", <<>>)
SourceOf(a) == Get(a, "source", UNKNOWN)
\* a dedup key that keeps the case of the title
title_key_CaseSensitive(title) == Prefix(title, KEY_LEN)

\* title_key = title.lower()[:50]
title_key(title) == Prefix(Lower(title), KEY_LEN)

(***************************************************************************)
(* The inputs the runs are checked on.                                     *)
(*   - listings made of up to MaxRecords entries of ENTRIES: the example   *)
(*     of the specification, a near-duplicate of it, sports and campus     *)
(*     news, a mail link, a title longer than 100 characters;              *)
(*   - listings made of up to MaxDup entries of DUP_ENTRIES, for the dedup *)
(*     step;                                                               *)
(*   - listings of up to MaxLines lines of PARSE_LINES, for the parser;    *)
(*   - listings of about MAX_ITEMS numbered entries, for the cap;          *)
(*   - titles and summaries for direct calls of get_emoji.                 *)
(***************************************************************************)
MaxRecords == 2
MaxDup     == 3
MaxLines   == 3
MaxBulk    == 150

TITLE_GIFT ==
  <<"V","e","t","e","r","i","n","a","r","y"," ","S","c","h","o","o","l"," ","R","e","c","e","i","v","e","s"," ","$","5"," ","M","i","l","l","i","o","n"," ","G","i","f","t"," ","f","o","r"," ","C","a","n","c","e","r"," ","R","e","s","e","a","r","c","h">>
\* the same first 50 characters in another case, another ending
TITLE_GIFT_CENTER ==
  <<"V","E","T","E","R","I","N","A","R","Y"," ","S","C","H","O","O","L"," ","R","E","C","E","I","V","E","S"," ","$","5"," ","M","I","L","L","I","O","N"," ","G","I","F","T"," ","F","O","R"," ","C","A","N","C","E","R"," ","C","E","N","T","E","R">>
TITLE_GIFT_CARE ==
  <<"V","e","t","e","r","i","n","a","r","y"," ","s","c","h","o","o","l"," ","r","e","c","e","i","v","e","s"," ","$","5"," ","m","i","l","l","i","o","n"," ","g","i","f","t"," ","f","o","r"," ","c","a","n","c","e","r"," ","c","a","r","e">>
TITLE_SPORT   == <<"M","e","n","'","s"," ","B","a","s","k","e","t","b","a","l","l"," ","W","i","n","s"," ","C","h","a","m","p","i","o","n","s","h","i","p">>
TITLE_PARKING == <<"C","a","m","p","u","s"," ","p","a","r","k","i","n","g"," ","u","p","d","a","t","e"," ","a","n","n","o","u","n","c","e","d">>
\* an exclusion keyword and vet/health keywords
TITLE_DOGS ==
  <<"V","e","t","e","r","i","n","a","r","y"," ","c","a","r","d","i","o","l","o","g","y"," ","c","o","n","f","e","r","e","n","c","e"," ","f","e","a","t","u","r","e","s"," ","c","h","a","m","p","i","o","n","s","h","i","p","-","w","i","n","n","i","n","g"," ","s","e","r","v","i","c","e"," ","d","o","g","s">>
\* 126 characters, the only vet/health keyword after the 100th
TITLE_LONG ==
  <<"B","a","s","k","e","t","b","a","l","l"," ","s","e","a","s","o","n"," ","r","e","c","a","p"," ","a","n","d"," ","t","h","e"," ","w","e","e","k","e","n","d"," ","r","e","s","u","l","t","s"," ","f","r","o","m"," ","a","r","o","u","n","d"," ","t","h","e"," ","r","e","g","i","o","n"," ","p","l","u","s"," ","a"," ","l","o","o","k"," ","a","t"," ","w","h","a","t"," ","c","o","m","e","s"," ","n","e","x","t"," ","t","h","e","n"," ","v","e","t","e","r","i","n","a","r","y"," ","s","t","u","d","e","n","t","s">>

ENTRY_GIFT ==
  << <<"[","1","]"," ","[","u","n","r","e","a","d","]"," ">> \o TITLE_GIFT,
     <<"B","l","o","g",":"," ","W","e","s","t","e","r","n"," ","U","n","i","v","e","r","s","i","t","y">>,
     <<"U","R","L",":"," ","/","n","e","w","s","/","g","i","f","t">>,
     <<"P","u","b","l","i","s","h","e","d",":"," ","2","0","2","4","-","0","1","-","0","1">> >>
ENTRY_GIFT_CENTER ==
  << <<"[","2","]"," ","[","r","e","a","d","]"," ">> \o TITLE_GIFT_CENTER,
     <<"U","R","L",":"," ","h","t","t","p","s",":","/","/","e","x","a","m","p","l","e",".","e","d","u","/","g","i","f","t">> >>
ENTRY_GIFT_CARE == << <<"[","3","]"," ","[","u","n","r","e","a","d","]"," ">> \o TITLE_GIFT_CARE >>
ENTRY_SPORT     == << <<"[","4","]"," ","[","u","n","r","e","a","d","]"," ">> \o TITLE_SPORT >>
ENTRY_PARKING   == << <<"[","5","]"," ","[","u","n","r","e","a","d","]"," ">> \o TITLE_PARKING >>
ENTRY_MAILTO ==
  << <<"[","6","]"," ","[","u","n","r","e","a","d","]"," ">> \o TITLE_SPORT,
     <<"U","R","L",":"," ","m","a","i","l","t","o",":","c","o","a","c","h","@","e","x","a","m","p","l","e",".","e","d","u">> >>
ENTRY_LONG ==
  << <<"[","7","]"," ","[","u","n","r","e","a","d","]"," ">> \o TITLE_LONG,
     <<"B","l","o","g",":"," ","L","i","n","c","o","l","n"," ","M","e","m","o","r","i","a","l"," ","U","n","i","v","e","r","s","i","t","y">>,
     <<"U","R","L",":"," ","/","n","e","w","s","/","r","e","c","a","p">> >>

ENTRY_DOGS == << <<"[","8","]"," ","[","r","e","a","d","]"," ">> \o TITLE_DOGS, <<"U","R","L",":"," ","/","n","e","w","s","/","d","o","g","s">> >>

ENTRIES ==
  { ENTRY_GIFT, ENTRY_GIFT_CENTER, ENTRY_SPORT, ENTRY_PARKING, ENTRY_MAILTO,
    ENTRY_LONG }

\* three records with one dedup key, one with another, one that is rejected
DUP_ENTRIES ==
  { ENTRY_GIFT, ENTRY_GIFT_CENTER, ENTRY_GIFT_CARE, ENTRY_DOGS, ENTRY_SPORT }

RECURSIVE Concat(_)
Concat(blocks) ==
  IF blocks = <<>> THEN <<>> ELSE Head(blocks) \o Concat(Tail(blocks))

Outputs ==
  {Concat(es) : es \in UNION {[1..k -> ENTRIES] : k \in 0..MaxRecords}}

DupOutputs ==
  {Concat(es) : es \in UNION {[1..k -> DUP_ENTRIES] : k \in 0..MaxDup}}

PARSE_LINES ==
  { <<"[","1","]"," ","[","u","n","r","e","a","d","]"," ","D","o","g"," ","s","t","u","d","y"," ","r","e","s","u","l","t","s">>,
    <<" "," ","[","2","]"," "," "," ","[","r","e","a","d","]"," ","\t"," ","H","o","r","s","e"," "," ","n","e","w","s"," ">>,
    <<"[","3","]"," ","C","a","t"," ","c","l","i","n","i","c"," ","o","p","e","n","s">>,
    <<"[","4","]"," ","[","r","e","a","d","]">>,
    <<"B","l","o","g",":"," ","W","e","s","t","e","r","n"," ","U","n","i","v","e","r","s","i","t","y">>,
    <<"U","R","L",":"," ","/","n","e","w","s","/","g","i","f","t">>,
    <<"P","u","b","l","i","s","h","e","d",":"," ","2","0","2","4","-","0","1","-","0","1">>,
    <<"B","l","o","g",":"," ","B","l","o","B","l","o","g",":","g",":"," ","x">>,
    <<"s","e","e"," ","t","h","e"," ","a","r","c","h","i","v","e">>,
    <<>> }

ParseInputs == UNION {[1..k -> PARSE_LINES] : k \in 0..MaxLines}

DIGITS == <<"0", "1", "2", "3", "4", "5", "6", "7", "8", "9">>
Digits3(i) ==
  <<DIGITS[(i \div 100) + 1], DIGITS[((i \div 10) % 10) + 1],
    DIGITS[(i % 10) + 1]>>

BulkTitle(i) == <<"V","e","t"," ","c","l","i","n","i","c"," ","r","e","p","o","r","t"," ">> \o Digits3(i)

\* listing v = 0: every entry survives.  Listing v = 1: entry 3 is junk,
\* entry 7 repeats the title of entry 6 in upper case, entry 9 is sports.
BulkLine(i, v) ==
  <<"[">> \o Digits3(i) \o <<"]"," ","[","u","n","r","e","a","d","]"," ">> \o
    ( IF v = 1 /\ i = 3 THEN <<"N","e","x","t">>
      ELSE IF v = 1 /\ i = 7 THEN <<"V","E","T"," ","C","L","I","N","I","C"," ","R","E","P","O","R","T"," ","0","0","6">>
      ELSE IF v = 1 /\ i = 9 THEN TITLE_SPORT
      ELSE BulkTitle(i) )

BulkOutputs ==
  {[i \in 1..n |-> BulkLine(i, v)] :
     n \in {MAX_ITEMS - 1, MAX_ITEMS, MAX_ITEMS + 1, MAX_ITEMS + 3, MaxBulk},
     v \in {0, 1}}

CALL_TITLES ==
  { <<>>, TITLE_GIFT, TITLE_SPORT, TITLE_PARKING, TITLE_DOGS, TITLE_LONG,
    <<"T","i","g","e","r","s"," ","a","r","r","i","v","e"," ","a","t"," ","t","h","e"," ","c","i","t","y"," ","z","o","o">>,
    <<"N","e","w"," ","K","-","9"," ","u","n","i","t"," ","j","o","i","n","s"," ","c","a","m","p","u","s"," ","p","a","t","r","o","l">>,
    <<"R","e","s","e","a","r","c","h"," ","m","a","g","a","z","i","n","e"," ","w","i","n","s"," ","d","e","s","i","g","n"," ","p","r","i","z","e">>,
    <<"C","A","T"," ","S","H","E","L","T","E","R"," ","O","P","E","N","S">>,
    <<"C","a","n","c","e","r"," ","v","a","c","c","i","n","e"," ","t","r","i","a","l"," ","w","i","n","s"," ","a","w","a","r","d">>,
    <<"A","n","n","u","a","l"," ","f","o","r","u","m"," ","o","n"," ","n","u","t","r","i","t","i","o","n">> }

SUMMARIES ==
  { <<>>, <<"A"," ","g","i","f","t"," ","o","f"," ","$","2">>, <<"S","t","u","d","e","n","t","s"," ","m","e","e","t"," ","t","h","e"," ","c","o","w","s">>,
    <<"r","o","b","o","t">>, <<"P","a","r","t","n","e","r","s","h","i","p"," ","a","g","r","e","e","m","e","n","t"," ","s","i","g","n","e","d">> }

RETURN_CODES == {0, 1}

\* datetime.now().astimezone().isoformat()
NOW == {"2026-11-06T09:00:00+00:00", "2026-11-06T10:30:00+01:00"}

\* a feed left by an earlier run
OLD_FEED == [lastUpdated |-> "2026-11-05T09:00:00+00:00", items |-> <<>>]

(***************************************************************************)
(* The verdicts of the classifiers on the titles and urls of these inputs, *)
(* evaluated once: a step of main() on such a record looks its verdicts up *)
(* instead of matching the 170 patterns again.  On any other title or url  *)
(* the classifier itself is evaluated.                                     *)
(***************************************************************************)
FILTER_TITLES ==
  { TITLE_GIFT, TITLE_GIFT_CENTER, TITLE_GIFT_CARE, TITLE_SPORT,
    TITLE_PARKING, TITLE_DOGS, TITLE_LONG, <<"N","e","x","t">>,
    <<"V","E","T"," ","C","L","I","N","I","C"," ","R","E","P","O","R","T"," ","0","0","6">> }
  \cup {BulkTitle(i) : i \in 1..MaxBulk}

FILTER_URLS ==
  { <<>>, <<"/","n","e","w","s","/","g","i","f","t">>, <<"h","t","t","p","s",":","/","/","e","x","a","m","p","l","e",".","e","d","u","/","g","i","f","t">>,
    <<"m","a","i","l","t","o",":","c","o","a","c","h","@","e","x","a","m","p","l","e",".","e","d","u">>, <<"/","n","e","w","s","/","r","e","c","a","p">>, <<"/","n","e","w","s","/","d","o","g","s">> }

JUNK_TABLE ==
  {<<t, u, is_junk(t, u)>> : t \in FILTER_TITLES, u \in FILTER_URLS}
OFF_TOPIC_TABLE == {<<t, is_off_topic(t)>> : t \in FILTER_TITLES}
RELATED_TABLE   ==
  {<<t, is_vet_health_related(t, <<>>)>> : t \in FILTER_TITLES}
EMOJI_TABLE     == {<<t, get_emoji(t, <<>>)>> : t \in FILTER_TITLES}

\* is_junk(title, url)
Junk(title, url) ==
  IF title \in FILTER_TITLES /\ url \in FILTER_URLS
  THEN <<title, url, TRUE>> \in JUNK_TABLE
  ELSE is_junk(title, url)

\* is_off_topic(title)
OffTopic(title) ==
  IF title \in FILTER_TITLES THEN <<title, TRUE>> \in OFF_TOPIC_TABLE
  ELSE is_off_topic(title)

\* is_vet_health_related(title, source)
Related(title, source) ==
  IF title \in FILTER_TITLES THEN <<title, TRUE>> \in RELATED_TABLE
  ELSE is_vet_health_related(title, source)

\* get_emoji(title)
Emoji(title) ==
  IF title \in FILTER_TITLES
  THEN (CHOOSE p \in EMOJI_TABLE : p[1] = title)[2]
  ELSE get_emoji(title, <<>>)
\* a loop body without the relevance check
Verdict_NoRelevanceCheck(article, seen) ==
  LET title == TitleOf(article)
      url   == UrlOf(article)
  IN  IF Junk(title, url) THEN "junk"
      ELSE IF OffTopic(title) THEN "off_topic"
      ELSE IF title_key(title) \in seen THEN "duplicate"
      ELSE "append"

\* a loop body that makes the relevance check before the off-topic check
Verdict_RelevanceCheckFirst(article, seen) ==
  LET title  == TitleOf(article)
      url    == UrlOf(article)
      source == SourceOf(article)
  IN  IF Junk(title, url) THEN "junk"
      ELSE IF ~Related(title, source) THEN "not_relevant"
      ELSE IF OffTopic(title) THEN "off_topic"
      ELSE IF title_key(title) \in seen THEN "duplicate"
      ELSE "append"

\* what main()'s loop does with a record, given the keys seen so far
Verdict(article, seen) ==
  LET title  == TitleOf(article)
      url    == UrlOf(article)
      source == SourceOf(article)
  IN  IF Junk(title, url) THEN "junk"
      ELSE IF OffTopic(title) THEN "off_topic"
      ELSE IF ~Related(title, source) THEN "not_relevant"
      ELSE IF title_key(title) \in seen THEN "duplicate"
      ELSE "append"

\* the dict main() appends to `processed` for a record
FeedItem(a) ==
  [ emoji   |-> Emoji(TitleOf(a)),
    title   |-> Prefix(TitleOf(a), TITLE_MAX),
    summary |-> <<>>,
    url     |-> fix_url(UrlOf(a), SourceOf(a)),
    source  |-> SourceOf(a),
    date    |-> Get(a, "date", <<>>) ]
\* a cap that keeps the last items: processed[-100:]
Cap_LastItems(items) == From(items, Max({1, Len(items) - MAX_ITEMS + 1}))

\* processed[:100]
Cap(items) == Prefix(items, MAX_ITEMS)
\* a check that takes only a negative status for a failure
Failed_NegativeOnly(result) == result.returncode < 0

\* `if result.returncode != 0`
Failed(result) == result.returncode # 0

(***************************************************************************)
(* The run of main().                                                      *)
(***************************************************************************)
Idle ==
  /\ writes = 0
  /\ console = <<>>
  /\ lines = <<>>
  /\ pos = 1
  /\ current = EmptyDict
  /\ parsed = <<>>
  /\ articles = <<>>
  /\ idx = 1
  /\ processed = <<>>
  /\ seen_titles = {}
  /\ skipped_off_topic = 0
  /\ skipped_not_relevant = 0

Init ==
  /\ blogwatcher \in [returncode : RETURN_CODES, stdout : Outputs]
  /\ news_json \in {<<>>, <<OLD_FEED>>}
  /\ pc = "start"
  /\ call = <<>>
  /\ ret = <<>>
  /\ Idle

\* subprocess.run(...), the check of its exit status, and the start of
\* parse_blogwatcher_output(result.stdout)
RunBlogwatcher ==
  /\ pc = "start"
  /\ IF Failed(blogwatcher)
     THEN /\ console' = Append(console, [msg |-> "Error running blogwatcher"])
          /\ pc' = "done"
          /\ UNCHANGED <<lines, pos, current, parsed>>
     ELSE /\ lines' = StripSplit(blogwatcher.stdout)
          /\ pos' = 1
          /\ current' = EmptyDict
          /\ parsed' = <<>>
          /\ pc' = "parse"
          /\ UNCHANGED console
  /\ UNCHANGED <<blogwatcher, news_json, writes, articles, idx, processed,
                 seen_titles, skipped_off_topic, skipped_not_relevant,
                 call, ret>>

\* one pass of `for line in lines`
ParseLine ==
  /\ pc = "parse"
  /\ pos <= Len(lines)
  /\ current' = CurrentAfter(current, lines[pos])
  /\ parsed' = ArticlesAfter(current, parsed, lines[pos])
  /\ pos' = pos + 1
  /\ UNCHANGED <<blogwatcher, news_json, writes, console, pc, lines,
                 articles, idx, processed, seen_titles, skipped_off_topic,
                 skipped_not_relevant, call, ret>>

\* the end of parse_blogwatcher_output and the start of main()'s loop
ParseReturn ==
  /\ pc = "parse"
  /\ pos > Len(lines)
  /\ parsed' = Flush(current, parsed)
  /\ articles' = parsed'
  /\ idx' = 1
  /\ processed' = <<>>
  /\ seen_titles' = {}
  /\ skipped_off_topic' = 0
  /\ skipped_not_relevant' = 0
  /\ pc' = "filter"
  /\ UNCHANGED <<blogwatcher, news_json, writes, console, lines, pos,
                 current, call, ret>>

\* one pass of `for article in articles`
FilterStep ==
  /\ pc = "filter"
  /\ idx <= Len(articles)
  /\ LET article == articles[idx]
         verdict == Verdict(article, seen_titles)
     IN  /\ skipped_off_topic' =
              skipped_off_topic + (IF verdict = "off_topic" THEN 1 ELSE 0)
         /\ skipped_not_relevant' =
              skipped_not_relevant
                + (IF verdict = "not_relevant" THEN 1 ELSE 0)
         /\ seen_titles' =
              IF verdict = "append"
              THEN seen_titles \cup {title_key(TitleOf(article))}
              ELSE seen_titles
         /\ processed' =
              IF verdict = "append"
              THEN Append(processed, FeedItem(article))
              ELSE processed
  /\ idx' = idx + 1
  /\ UNCHANGED <<blogwatcher, news_json, writes, console, pc, lines, pos,
                 current, parsed, articles, call, ret>>

\* the report, the cap and the write of news.json
WriteFeed ==
  /\ pc = "filter"
  /\ idx > Len(articles)
  /\ processed' = Cap(processed)
  /\ \E now \in NOW :
       news_json' = << [lastUpdated |-> now, items |-> processed'] >>
  /\ writes' = writes + 1
  /\ console' = console \o
       << [msg |-> "Filtered", off_topic |-> skipped_off_topic,
           not_relevant |-> skipped_not_relevant],
          [msg |-> "Exported", count |-> Len(processed')] >>
  /\ pc' = "done"
  /\ UNCHANGED <<blogwatcher, lines, pos, current, parsed, articles, idx,
                 seen_titles, skipped_off_topic, skipped_not_relevant,
                 call, ret>>

Next == RunBlogwatcher \/ ParseLine \/ ParseReturn \/ FilterStep \/ WriteFeed

Spec == Init /\ [][Next]_vars

\* parse_blogwatcher_output on listings of arbitrary lines
InitParse ==
  /\ blogwatcher \in [returncode : {0}, stdout : ParseInputs]
  /\ news_json = <<>>
  /\ pc = "start"
  /\ call = <<>>
  /\ ret = <<>>
  /\ Idle

NextParse == RunBlogwatcher \/ ParseLine \/ ParseReturn

SpecParse == InitParse /\ [][NextParse]_vars

\* main() on listings of records that share dedup keys
InitDup ==
  /\ blogwatcher \in [returncode : {0}, stdout : DupOutputs]
  /\ news_json = <<>>
  /\ pc = "start"
  /\ call = <<>>
  /\ ret = <<>>
  /\ Idle

SpecDup == InitDup /\ [][Next]_vars

\* main() on listings long enough to reach the cap
InitCap ==
  /\ blogwatcher \in [returncode : {0}, stdout : BulkOutputs]
  /\ news_json = <<>>
  /\ pc = "start"
  /\ call = <<>>
  /\ ret = <<>>
  /\ Idle

SpecCap == InitCap /\ [][Next]_vars

\* a direct call of get_emoji(title, summary)
InitCall ==
  /\ call \in {<< [title |-> t, summary |-> s] >> :
                 t \in CALL_TITLES, s \in SUMMARIES}
  /\ ret = <<>>
  /\ pc = "call"
  /\ blogwatcher = [returncode |-> 0, stdout |-> <<>>]
  /\ news_json = <<>>
  /\ Idle

CallGetEmoji ==
  /\ pc = "call"
  /\ ret' = <<get_emoji(call[1].title, call[1].summary)>>
  /\ pc' = "returned"
  /\ UNCHANGED <<blogwatcher, news_json, writes, console, lines, pos,
                 current, parsed, articles, idx, processed, seen_titles,
                 skipped_off_topic, skipped_not_relevant, call>>

NextCall == CallGetEmoji

SpecCall == InitCall /\ [][NextCall]_vars

(***************************************************************************)
(* What the claims speak of, stated in their terms.                        *)
(***************************************************************************)
\* the dedup key of a title: the lowercased title truncated to 50 characters
DedupKey(title) == Prefix(Lower(title), 50)

\* the title matches at least one exclusion pattern
MatchesExclusion(title) ==
  \E n \in 1..Len(EXCLUDE_KEYWORDS) :
    ReSearch(EXCLUDE_KEYWORDS[n], Lower(title), TRUE)

EXCLUSION_TABLE == {<<t, MatchesExclusion(t)>> : t \in FILTER_TITLES}

Excluded(title) ==
  IF title \in FILTER_TITLES THEN <<title, TRUE>> \in EXCLUSION_TABLE
  ELSE MatchesExclusion(title)

\* the run has written the feed
Written == pc = "done" /\ writes = 1

Items == news_json[1].items

NotJunk(a) == ~Junk(TitleOf(a), UrlOf(a))

\* the record passes the junk and topic filters
Passes(a) ==
  /\ NotJunk(a)
  /\ ~OffTopic(TitleOf(a))
  /\ Related(TitleOf(a), SourceOf(a))

(***************************************************************************)
(* C1, as stated: every item of the final `items`, taken with its title    *)
(* and url as emitted, is not junk, not off-topic, vet/health related, and *)
(* its dedup key differs from the key of every item before it.             *)
(* It fails for a title longer than 100 characters whose only vet/health   *)
(* keyword comes after the 100th: the filters saw the whole title, the     *)
(* item carries its first 100 characters.                                  *)
(***************************************************************************)
C1_EmittedItemsPassTheFilters ==
  Written =>
    \A k \in 1..Len(Items) :
      /\ ~Junk(Items[k].title, Items[k].url)
      /\ ~OffTopic(Items[k].title)
      /\ Related(Items[k].title, Items[k].source)
      /\ \A j \in 1..(k - 1) :
           DedupKey(Items[j].title) # DedupKey(Items[k].title)

(***************************************************************************)
(* C1, amended: every item of the final `items` is built from a parsed     *)
(* record whose title, taken in full (the item carries its first 100       *)
(* characters), with the url as emitted, is not junk, not off-topic and    *)
(* vet/health related; and the dedup key of the item's title differs from  *)
(* the key of every item before it.                                        *)
(***************************************************************************)
C1_ItemsComeFromAdmittedRecords ==
  Written =>
    \A k \in 1..Len(Items) :
      /\ \E i \in 1..Len(articles) :
           /\ Items[k] = FeedItem(articles[i])
           /\ ~Junk(TitleOf(articles[i]), Items[k].url)
           /\ ~OffTopic(TitleOf(articles[i]))
           /\ Related(TitleOf(articles[i]), SourceOf(articles[i]))
      /\ \A j \in 1..(k - 1) :
           DedupKey(Items[j].title) # DedupKey(Items[k].title)

\* a feed of two items, one of them the long title cut to 100 characters,
\* the other with its url resolved against the base of its source
C1_Witness ==
  /\ Written
  /\ Len(Items) = 2
  /\ \E k \in 1..2 : Items[k].title = Prefix(TITLE_LONG, 100)
  /\ \E k \in 1..2 :
       Items[k].url = <<"h","t","t","p","s",":","/","/","w","w","w",".","w","e","s","t","e","r","n","u",".","e","d","u","/","n","e","w","s","/","g","i","f","t">>

(***************************************************************************)
(* C4: a vet/health related title is never off-topic, also when exclusion  *)
(* patterns match it; so the records that get past the topic gate of       *)
(* main() are exactly the non-junk records with a vet/health related       *)
(* title: they are the ones whose dedup key is recorded, and the two       *)
(* counters together count the other non-junk records.                     *)
(***************************************************************************)
C4_RelatedOverridesExclusion ==
  /\ \A i \in 1..Len(articles) :
       Related(TitleOf(articles[i]), SourceOf(articles[i]))
         => ~OffTopic(TitleOf(articles[i]))
  /\ pc = "filter" =>
       LET nonjunk == {i \in 1..(idx - 1) : NotJunk(articles[i])}
           related == {i \in nonjunk : Related(TitleOf(articles[i]),
                                               SourceOf(articles[i]))}
       IN  /\ seen_titles = {DedupKey(TitleOf(articles[i])) : i \in related}
           /\ skipped_off_topic + skipped_not_relevant
                = Cardinality(nonjunk \ related)

\* a record whose title matches an exclusion pattern and a vet/health
\* keyword has passed the gate
C4_Witness ==
  /\ pc = "filter"
  /\ \E i \in 1..(idx - 1) :
       /\ NotJunk(articles[i])
       /\ Excluded(TitleOf(articles[i]))
       /\ Related(TitleOf(articles[i]), SourceOf(articles[i]))
       /\ DedupKey(TitleOf(articles[i])) \in seen_titles

(***************************************************************************)
(* C5: after a nonzero exit status the run ends without parsing and        *)
(* without opening or writing news.json, which stays as it was; the file   *)
(* is written only after a zero exit status, and then once.                *)
(***************************************************************************)
C5_FailureLeavesTheFeedAlone ==
  /\ [](/\ writes <= 1
        /\ (writes = 1 => blogwatcher.returncode = 0)
        /\ (pc = "done" /\ blogwatcher.returncode = 0 => writes = 1)
        /\ (blogwatcher.returncode # 0 =>
              /\ pc \in {"start", "done"}
              /\ lines = <<>> /\ parsed = <<>> /\ articles = <<>>
              /\ writes = 0))
  /\ [][blogwatcher.returncode # 0 => news_json' = news_json]_vars
  /\ [][news_json' # news_json => writes' = writes + 1 /\ pc' = "done"]_vars

\* a failed run has ended, the feed of an earlier run is still there
C5_Witness ==
  /\ pc = "done"
  /\ blogwatcher.returncode # 0
  /\ blogwatcher.stdout # <<>>
  /\ news_json = <<OLD_FEED>>
  /\ console = <<[msg |-> "Error running blogwatcher"]>>

(***************************************************************************)
(* C6: the reported off-topic counter is the number of parsed records that *)
(* are not junk and whose title matches an exclusion pattern and no        *)
(* vet/health keyword; the not-relevant counter is the number of records   *)
(* that are not junk and whose title matches neither.  Records, not        *)
(* titles, are counted, and junk records are counted nowhere.              *)
(***************************************************************************)
C6_CountersMatchTheTitles ==
  Written =>
    LET nonjunk == {i \in 1..Len(articles) : NotJunk(articles[i])}
        keyword(i) == Related(TitleOf(articles[i]), SourceOf(articles[i]))
        excluded(i) == Excluded(TitleOf(articles[i]))
    IN  /\ console[1].msg = "Filtered"
        /\ console[1].off_topic =
             Cardinality({i \in nonjunk : excluded(i) /\ ~keyword(i)})
        /\ console[1].not_relevant =
             Cardinality({i \in nonjunk : ~excluded(i) /\ ~keyword(i)})

\* the same sports title twice, once with a mail link: counted once
C6_Witness ==
  /\ Written
  /\ Len(articles) = 2
  /\ \A i \in 1..2 : TitleOf(articles[i]) = TITLE_SPORT
  /\ \E i \in 1..2 : ~NotJunk(articles[i])
  /\ console[1].off_topic = 1
  /\ console[1].not_relevant = 0

(***************************************************************************)
(* The records of the run that pass the junk and topic filters, and those  *)
(* of them that survive the dedup step as well: the ones with no passing   *)
(* record of the same dedup key before them.                               *)
(***************************************************************************)
KeyOf(i) == DedupKey(TitleOf(articles[i]))

Passing(n) == {i \in 1..n : Passes(articles[i])}

Survivors ==
  LET passing == Passing(Len(articles))
      keys    == {<<i, KeyOf(i)>> : i \in passing}
  IN  {i \in passing : \A p \in keys : p[1] < i => p[2] # KeyOf(i)}

\* the k-th survivor in input order
NthSurvivor(surv, k) ==
  CHOOSE i \in surv : Cardinality({j \in surv : j <= i}) = k

(***************************************************************************)
(* C2: the final `items` has length min(100, n), n the number of records   *)
(* that survive the junk, topic and dedup steps, and it is the first       *)
(* min(100, n) survivors in their input order, none skipped or repeated.   *)
(***************************************************************************)
C2_FirstHundredSurvivorsInOrder ==
  Written =>
    LET surv == Survivors
        n    == Cardinality(surv)
    IN  /\ Len(Items) = IF n < 100 THEN n ELSE 100
        /\ \A k \in 1..Len(Items) :
             Items[k] = FeedItem(articles[NthSurvivor(surv, k)])

\* 150 records, all of them survivors, and a feed of the first 100
C2_Witness ==
  /\ Written
  /\ Len(articles) = 150
  /\ Cardinality(Survivors) = 150
  /\ Len(Items) = 100
  /\ Items[100].title = TitleOf(articles[100])

\* the loop of main() has gone through all the records; the cap is to come
Filtered == pc = "filter" /\ idx > Len(articles)

\* the items built from record i, told by their content
ItemsFrom(i) ==
  {k \in 1..Len(processed) : processed[k] = FeedItem(articles[i])}

(***************************************************************************)
(* C3, as stated: of any two records that pass the junk and topic filters, *)
(* if the titles agree, ignoring case, on the first 50 characters, one     *)
(* item is produced for the pair, built from the earlier record; if the    *)
(* lowercased titles differ within the first 50 characters, two items are  *)
(* produced; this before the cap.  A rejected record records no key.       *)
(* It fails for the second and third of three records with one key: the    *)
(* only item with that key is built from the first of the three.           *)
(***************************************************************************)
C3_OneItemPerPair ==
  Filtered =>
    LET passing == Passing(Len(articles))
    IN  /\ \A i \in passing : \A j \in passing :
             i < j =>
               IF KeyOf(i) = KeyOf(j)
               THEN /\ Cardinality(ItemsFrom(i) \cup ItemsFrom(j)) = 1
                    /\ ItemsFrom(i) # {}
               ELSE Cardinality(ItemsFrom(i) \cup ItemsFrom(j)) = 2
        /\ seen_titles = {KeyOf(i) : i \in passing}

(***************************************************************************)
(* C3, amended: for the records that pass the junk and topic filters,      *)
(* before the cap: one item is produced per dedup key, built from the      *)
(* first passing record of the run with that key.  So of two passing       *)
(* records with one key the later one produces no item, and the earlier    *)
(* one produces the item unless a passing record before it has the key;    *)
(* two passing records of different keys stand for two different items.    *)
(* A record rejected as junk, off-topic or not relevant records no key.    *)
(***************************************************************************)
C3_OneItemPerKeyFromTheFirst ==
  pc = "filter" =>
    LET passing == Passing(idx - 1)
        withKey(key) == {i \in passing : KeyOf(i) = key}
        itemsOf(key) ==
          {k \in 1..Len(processed) : DedupKey(processed[k].title) = key}
    IN  /\ \A i \in passing :
             LET first == CHOOSE f \in withKey(KeyOf(i)) :
                            \A g \in withKey(KeyOf(i)) : f <= g
             IN  /\ Cardinality(itemsOf(KeyOf(i))) = 1
                 /\ \A k \in itemsOf(KeyOf(i)) :
                      processed[k] = FeedItem(articles[first])
        /\ \A k \in 1..Len(processed) :
             \E i \in passing : KeyOf(i) = DedupKey(processed[k].title)
        /\ seen_titles = {KeyOf(i) : i \in passing}

\* three records with one key in three spellings: one item, built from the
\* first
C3_Witness ==
  /\ Filtered
  /\ Len(articles) = 3
  /\ {TitleOf(articles[i]) : i \in 1..3} =
       {TITLE_GIFT, TITLE_GIFT_CENTER, TITLE_GIFT_CARE}
  /\ TitleOf(articles[1]) = TITLE_GIFT_CENTER
  /\ Len(processed) = 1
  /\ processed[1] = FeedItem(articles[1])
  /\ Cardinality(seen_titles) = 1

(***************************************************************************)
(* C9: get_emoji returns the emoji paired with the first pattern of        *)
(* EMOJI_MAP, in table order, that is found in the lowercased text         *)
(* title + ' ' + summary, however many later patterns are found too, and   *)
(* the newspaper emoji when none is; the gift-for-cancer-research title    *)
(* gets the funding emoji.                                                 *)
(***************************************************************************)
C9_FirstMatchingPatternWins ==
  pc = "returned" =>
    LET text == Lower(call[1].title \o <<" ">> \o call[1].summary)
        hits == {n \in 1..Len(EMOJI_MAP) :
                   ReSearch(EMOJI_MAP[n][1], text, TRUE)}
    IN  /\ Len(ret) = 1
        /\ ret[1] = IF hits = {} THEN "newspaper"
                    ELSE EMOJI_MAP[Min(hits)][2]
        /\ (call[1].title = TITLE_GIFT /\ call[1].summary = <<>>
              => ret[1] = "money_bag")

\* the call with the title that the funding, the school, the research and
\* the cancer pattern are all found in
C9_Witness ==
  /\ pc = "returned"
  /\ call[1].title = TITLE_GIFT
  /\ call[1].summary = <<>>
  /\ ret = <<"money_bag">>
  /\ LET text == Lower(call[1].title \o <<" ">> \o call[1].summary)
         hits == {n \in 1..Len(EMOJI_MAP) :
                    ReSearch(EMOJI_MAP[n][1], text, TRUE)}
     IN  /\ Cardinality(hits) >= 2
         /\ \E n \in hits : EMOJI_MAP[n][2] = "reminder_ribbon"

(***************************************************************************)
(* The line format, in terms of the characters of a line.                  *)
(***************************************************************************)
\* the length of the index marker `[<integer>]` a line begins with, or 0
MarkerLen(line) ==
  IF Len(line) >= 3 /\ line[1] = "["
  THEN LET closes == {k \in 3..Len(line) :
                        /\ line[k] = "]"
                        /\ \A j \in 2..(k - 1) : line[j] \in DigitChars}
       IN  IF closes = {} THEN 0 ELSE Min(closes)
  ELSE 0

\* the number of whitespace characters s begins with
LeadingSpaces(s) ==
  LET others == {k \in 1..Len(s) : s[k] \notin SpaceChars}
  IN  IF others = {} THEN Len(s) ELSE Min(others) - 1

TAGS == {<<"[","r","e","a","d","]">>, <<"[","u","n","r","e","a","d","]">>}

\* the tag s begins with, or <<>>
TagOf(s) == IF \E t \in TAGS : StartsWith(s, t)
            THEN CHOOSE t \in TAGS : StartsWith(s, t) ELSE <<>>

\* the title of a trimmed line that is a marker, an optional tag and a title:
\* <<title>>, or <<>> when the line is not of that form
OptionalTagTitle(line) ==
  LET rest  == Strip(From(line, MarkerLen(line) + 1))
      title == IF TagOf(rest) = <<>> THEN rest
               ELSE Strip(From(rest, Len(TagOf(rest)) + 1))
  IN  IF MarkerLen(line) > 0 /\ title # <<>> THEN <<title>> ELSE <<>>

\* the title of a trimmed line that is a marker, whitespace, a tag,
\* whitespace and a title: <<title>>, or <<>> when the line is not of that
\* form
TaggedTitle(line) ==
  LET rest     == From(line, MarkerLen(line) + 1)
      gap      == LeadingSpaces(rest)
      tagged   == From(rest, gap + 1)
      afterTag == From(tagged, Len(TagOf(tagged)) + 1)
      gap2     == LeadingSpaces(afterTag)
      title    == From(afterTag, gap2 + 1)
  IN  IF /\ MarkerLen(line) > 0
         /\ gap >= 1
         /\ TagOf(tagged) # <<>>
         /\ gap2 >= 1
         /\ title # <<>>
      THEN <<title>> ELSE <<>>

\* parse_blogwatcher_output has returned
Parsed == pc = "filter" /\ idx = 1

\* the titles of the returned records, in order
Titles == [n \in 1..Len(articles) |-> Get(articles[n], "title", <<>>)]

\* the members of a set of line numbers, in increasing order
RECURSIVE InOrder(_)
InOrder(S) ==
  IF S = {} THEN <<>> ELSE <<Min(S)>> \o InOrder(S \ {Min(S)})

(***************************************************************************)
(* C7, as stated: every line that is an index marker followed by the       *)
(* title, with or without a read/unread tag between them, yields a record  *)
(* whose title is what follows the marker and the optional tag, trimmed.   *)
(* It fails for a marker line without a tag: no record comes of it.        *)
(***************************************************************************)
C7_TagIsOptional ==
  Parsed =>
    LET entries == {k \in 1..Len(lines) :
                      OptionalTagTitle(Strip(lines[k])) # <<>>}
        order   == InOrder(entries)
    IN  Titles = [n \in 1..Len(order) |->
                    OptionalTagTitle(Strip(lines[order[n]]))[1]]

(***************************************************************************)
(* C7, amended: the read/unread tag is required.  A line yields a record   *)
(* exactly when, trimmed, it is an index marker, whitespace, a `[read]` or *)
(* `[unread]` tag, whitespace and a title; the record's title is what      *)
(* follows the tag, trimmed.  A marker line without the tag yields no      *)
(* record.                                                                 *)
(***************************************************************************)
C7_TagIsRequired ==
  Parsed =>
    LET entries == {k \in 1..Len(lines) :
                      TaggedTitle(Strip(lines[k])) # <<>>}
        order   == InOrder(entries)
    IN  Titles = [n \in 1..Len(order) |->
                    TaggedTitle(Strip(lines[order[n]]))[1]]

\* a marker line without a tag, then one with a tag: one record
C7_Witness ==
  /\ Parsed
  /\ lines = << <<"[","3","]"," ","C","a","t"," ","c","l","i","n","i","c"," ","o","p","e","n","s">>,
                <<" "," ","[","2","]"," "," "," ","[","r","e","a","d","]"," ","\t"," ","H","o","r","s","e"," "," ","n","e","w","s"," ">> >>
  /\ Titles = << <<"H","o","r","s","e"," "," ","n","e","w","s">> >>

(***************************************************************************)
(* The records written back in the line format: for the n-th record a      *)
(* marker line with a tag and the title, then a `Blog:`, `URL:` and        *)
(* `Published:` line for each field that is set, the label followed by a   *)
(* space and the value.                                                    *)
(***************************************************************************)
FieldLine(rec, field, label) ==
  IF field \in DOMAIN rec THEN << label \o <<" ">> \o rec[field] >> ELSE <<>>

SerializeRecord(rec, n) ==
  << <<"[", DIGITS[n + 1], "]">> \o <<" ","[","u","n","r","e","a","d","]"," ">> \o rec["title"] >>
    \o FieldLine(rec, "source", <<"B","l","o","g",":">>)
    \o FieldLine(rec, "url", <<"U","R","L",":">>)
    \o FieldLine(rec, "date", <<"P","u","b","l","i","s","h","e","d",":">>)

Serialize(recs) ==
  Concat([n \in 1..Len(recs) |-> SerializeRecord(recs[n], n)])

(***************************************************************************)
(* C8: parsing round-trips: the records parsed from a text, written back   *)
(* in the line format and parsed again, are the same records.  It needs    *)
(* an attribute line to give its content with only the leading label       *)
(* taken off; the code takes every occurrence of the label off the line.   *)
(***************************************************************************)
C8_ParseRoundTrips ==
  Parsed => parse_blogwatcher_output(Serialize(articles)) = articles

(***************************************************************************)
(* C10: parse_blogwatcher_output returns, in input order, one record per   *)
(* marker line whose title is captured; a record carries the attribute     *)
(* lines between its marker and the next marker line, the last value of a  *)
(* repeated attribute, and no field for an attribute that is not there.    *)
(* A marker line without a captured title gives no record, and the         *)
(* attribute lines after it, like those before the first marker, go to no  *)
(* record; blank and other lines change nothing; the last record is        *)
(* returned at the end of the input.                                       *)
(***************************************************************************)
LABELS ==
  { <<"source", <<"B","l","o","g",":">>>>, <<"url", <<"U","R","L",":">>>>, <<"date", <<"P","u","b","l","i","s","h","e","d",":">>>> }

\* the record of the marker line k, the next marker line being `next`
RecordAt(k, next) ==
  LET attr(label) == {j \in (k + 1)..(next - 1) :
                        StartsWith(Strip(lines[j]), label)}
      set  == {p \in LABELS : attr(p[2]) # {}}
      last(field) == LET p == CHOOSE q \in set : q[1] = field
                     IN  AttrValue(Strip(lines[Max(attr(p[2]))]), p[2])
  IN  [f \in {"title"} \cup {p[1] : p \in set} |->
         IF f = "title" THEN TaggedTitle(Strip(lines[k]))[1] ELSE last(f)]

C10_OneRecordPerTitledMarker ==
  Parsed =>
    LET markers == {k \in 1..Len(lines) : MarkerLen(Strip(lines[k])) > 0}
        titled  == {k \in markers : TaggedTitle(Strip(lines[k])) # <<>>}
        next(k) == Min({m \in markers : m > k} \cup {Len(lines) + 1})
        order   == InOrder(titled)
    IN  articles = [n \in 1..Len(order) |->
                      RecordAt(order[n], next(order[n]))]

\* a marker line without a title, an attribute line after it, then an entry
\* with no attributes
C10_Witness ==
  /\ Parsed
  /\ lines = << <<"[","4","]"," ","[","r","e","a","d","]">>, <<"B","l","o","g",":"," ","W","e","s","t","e","r","n"," ","U","n","i","v","e","r","s","i","t","y">>,
                <<"[","1","]"," ","[","u","n","r","e","a","d","]"," ","D","o","g"," ","s","t","u","d","y"," ","r","e","s","u","l","t","s">> >>
  /\ Len(articles) = 1
  /\ DOMAIN articles[1] = {"title"}
  /\ articles[1]["title"] = <<"D","o","g"," ","s","t","u","d","y"," ","r","e","s","u","l","t","s">>

=============================================================================
